---- MODULE Spec2Model ----
(***************************************************************************)
(* Model of src/main.py: the watchlist scan (background_scan and the pure  *)
(* helpers it calls), the /watch command that starts a scan, and the       *)
(* display formatters together with the numeric parser safe_float.         *)
(*                                                                         *)
(* Python floats are modelled as exact rationals plus the not-a-number     *)
(* value; rounding error, infinities and overflow of binary floating point *)
(* are outside the model.  A raised ZeroDivisionError is the value Err.    *)
(* Text is a sequence of one-character strings.                            *)
(***************************************************************************)
EXTENDS Integers, Sequences, FiniteSets, TLC

VARIABLES scans, last, alerted, calc, fmt, big, weekly

vars == <<scans, last, alerted, calc, fmt, big, weekly>>

(***************************************************************************)
(* Numbers: float("nan"), exact rationals n/d in lowest terms, and Err for *)
(* an exception raised while evaluating an arithmetic expression.          *)
(***************************************************************************)
RECURSIVE GCD(_, _)
GCD(a, b) == IF b = 0 THEN a ELSE GCD(b, a % b)

AbsInt(i) == IF i < 0 THEN -i ELSE i

Q(n, d) ==
    LET s == IF d < 0 THEN -1 ELSE 1
        g == GCD(AbsInt(n), AbsInt(d))
    IN  [k |-> "num", n |-> (s * n) \div g, d |-> (s * d) \div g]

N(i) == [k |-> "num", n |-> i, d |-> 1]

NaN == [k |-> "nan", n |-> 0, d |-> 1]

Err == [k |-> "err", n |-> 0, d |-> 1]

\* x == x in Python: false only for not-a-number
IsNum(x) == x.k = "num"

IsErr(x) == x.k = "err"

\* truth value of a float: zero is false, everything else (NaN too) is true
Truthy(x) == ~(x.k = "num" /\ x.n = 0)

Arith(a, b, r) ==
    IF IsErr(a) \/ IsErr(b) THEN Err
    ELSE IF ~IsNum(a) \/ ~IsNum(b) THEN NaN
    ELSE r

Sub(a, b) == Arith(a, b, Q(a.n * b.d - b.n * a.d, a.d * b.d))

Mul(a, b) == Arith(a, b, Q(a.n * b.n, a.d * b.d))

\* float division: a zero divisor raises ZeroDivisionError whatever the dividend
Div(a, b) ==
    IF IsErr(a) \/ IsErr(b) THEN Err
    ELSE IF IsNum(b) /\ b.n = 0 THEN Err
    ELSE IF ~IsNum(a) \/ ~IsNum(b) THEN NaN
    ELSE Q(a.n * b.d, a.d * b.n)

\* comparisons are false as soon as one side is not-a-number
Leq(a, b) == IsNum(a) /\ IsNum(b) /\ a.n * b.d <= b.n * a.d

Geq(a, b) == Leq(b, a)

Gt(a, b) == IsNum(a) /\ IsNum(b) /\ a.n * b.d > b.n * a.d

Abs(x) == IF IsNum(x) THEN [x EXCEPT !.n = AbsInt(x.n)] ELSE x

(***************************************************************************)
(* Text helpers.                                                           *)
(***************************************************************************)
Digits == <<"0", "1", "2", "3", "4", "5", "6", "7", "8", "9">>

IsDigit(c) == \E i \in 1..10 : Digits[i] = c

DigitVal(c) == (CHOOSE i \in 1..10 : Digits[i] = c) - 1

RECURSIVE NatText(_)
NatText(n) ==
    IF n < 10 THEN <<Digits[n + 1]>>
    ELSE NatText(n \div 10) \o <<Digits[(n % 10) + 1]>>

RECURSIVE TextNat(_)
TextNat(s) ==
    IF s = <<>> THEN 0
    ELSE 10 * TextNat(SubSeq(s, 1, Len(s) - 1)) + DigitVal(s[Len(s)])

RECURSIVE Pow10(_)
Pow10(e) == IF e = 0 THEN 1 ELSE 10 * Pow10(e - 1)

\* the "," option of the format mini-language: thousands separators
RECURSIVE Grouped(_)
Grouped(s) ==
    IF Len(s) <= 3 THEN s
    ELSE Grouped(SubSeq(s, 1, Len(s) - 3)) \o <<",">> \o SubSeq(s, Len(s) - 2, Len(s))

\* str.replace(",", "")
RECURSIVE RemoveCommas(_)
RemoveCommas(s) ==
    IF s = <<>> THEN <<>>
    ELSE IF Head(s) = "," THEN RemoveCommas(Tail(s))
    ELSE <<Head(s)>> \o RemoveCommas(Tail(s))

\* str.strip()
RECURSIVE Strip(_)
Strip(s) ==
    IF s = <<>> THEN s
    ELSE IF Head(s) = " " THEN Strip(Tail(s))
    ELSE IF s[Len(s)] = " " THEN Strip(SubSeq(s, 1, Len(s) - 1))
    ELSE s

UpperChar(c) ==
    CASE c = "a" -> "A" [] c = "b" -> "B" [] c = "c" -> "C" [] OTHER -> c

\* str.upper()
Upper(s) == [i \in 1..Len(s) |-> UpperChar(s[i])]

\* the hundredths |x| rounds to under the ".2f" presentation: the exact value
\* is rounded to the nearest hundredth, ties to the even one
Hundredths(x) ==
    LET a  == AbsInt(x.n) * 100
        fl == a \div x.d
        r2 == 2 * (a % x.d)
    IN  IF r2 > x.d \/ (r2 = x.d /\ fl % 2 = 1) THEN fl + 1 ELSE fl

\* f"{x:.2f}" without the sign
Fixed2(h) ==
    <<Digits[((h % 100) \div 10) + 1], Digits[(h % 10) + 1]>>

MinusIfNeg(x) == IF x.n < 0 THEN <<"-">> ELSE <<>>

Dash == <<"--">>

\* float(text): optional sign, digits with at most one decimal point, at least
\* one digit; anything else raises ValueError, reported as Err.  (Exponents,
\* underscores and the words inf/nan are not produced by any text of the model.)
ParseFloat(s) ==
    LET neg   == s # <<>> /\ Head(s) = "-"
        body  == IF s # <<>> /\ Head(s) \in {"+", "-"} THEN Tail(s) ELSE s
        dots  == {i \in 1..Len(body) : body[i] = "."}
        dot   == IF dots = {} THEN Len(body) + 1 ELSE CHOOSE i \in dots : TRUE
        ip    == SubSeq(body, 1, dot - 1)
        fp    == SubSeq(body, dot + 1, Len(body))
        ok    == /\ Cardinality(dots) <= 1
                 /\ Len(ip) + Len(fp) >= 1
                 /\ \A i \in 1..Len(ip) : IsDigit(ip[i])
                 /\ \A i \in 1..Len(fp) : IsDigit(fp[i])
        mag   == TextNat(ip) * Pow10(Len(fp)) + TextNat(fp)
    IN  IF ok THEN Q(IF neg THEN -mag ELSE mag, Pow10(Len(fp))) ELSE Err

(***************************************************************************)
(* Helpers of src/main.py.                                                 *)
(***************************************************************************)
\* Python's None, as dict.get returns it for a missing key
None == <<"None">>

\* dict.get(key) and dict.get(key, default)
Get(dict, key, default) == IF key \in DOMAIN dict THEN dict[key] ELSE default

safe_float_keeps_commas(x) ==
    IF x = None \/ x = <<>> THEN NaN
    ELSE LET v == ParseFloat(Strip(x))
         IN  IF IsErr(v) THEN NaN ELSE v

safe_float(x) ==
    IF x = None \/ x = <<>> THEN NaN
    ELSE LET v == ParseFloat(Strip(RemoveCommas(x)))
         IN  IF IsErr(v) THEN NaN ELSE v

format_money(x) ==
    IF ~IsNum(x) THEN Dash
    ELSE LET h == Hundredths(x)
         IN  MinusIfNeg(x) \o Grouped(NatText(h \div 100)) \o <<".">> \o Fixed2(h)

format_pct(x) ==
    IF ~IsNum(x) THEN Dash
    ELSE LET h    == Hundredths(x)
             sign == IF Geq(x, N(0)) THEN <<"+">> ELSE <<>>
         IN  sign \o MinusIfNeg(x) \o NatText(h \div 100) \o <<".">> \o Fixed2(h) \o <<"%">>

\* One row of ws.get_all_records() as load_watchlist keeps it (the Note column
\* is copied through and read by nothing, it is left out).
WatchRow(row) ==
    [Ticker            |-> Upper(Strip(Get(row, "Ticker", <<>>))),
     Shares            |-> safe_float(Get(row, "Shares", None)),
     Entry             |-> safe_float(Get(row, "Entry", None)),
     FloorValue        |-> safe_float(Get(row, "FloorValue", None)),
     FloorThresholdPct |-> safe_float(Get(row, "FloorThresholdPct", None))]

RECURSIVE KeepTickers(_)
KeepTickers(records) ==
    IF records = <<>> THEN <<>>
    ELSE LET r == WatchRow(Head(records))
         IN  (IF r.Ticker = <<>> THEN <<>> ELSE <<r>>) \o KeepTickers(Tail(records))

\* read is the outcome of ws.get_all_records(): [ok |-> FALSE] when it raises,
\* [ok |-> TRUE, records |-> ...] otherwise.  raised tells the caller whether an
\* exception leaves load_watchlist.
load_watchlist_unguarded(read) ==
    IF ~read.ok THEN [raised |-> TRUE, wl |-> <<>>]
    ELSE [raised |-> FALSE, wl |-> KeepTickers(read.records)]

load_watchlist(read) ==
    IF ~read.ok THEN [raised |-> FALSE, wl |-> <<>>]
    ELSE [raised |-> FALSE, wl |-> KeepTickers(read.records)]

QuoteError(ticker) ==
    [ticker |-> ticker, price |-> NaN, prev_close |-> NaN, change_pct_1d |-> NaN,
     error |-> TRUE]

\* resp is the outcome of finnhub_client.quote(map_symbol(ticker)):
\* [ok |-> FALSE] when the call raises, [ok |-> TRUE, q |-> dict] otherwise.
\* (map_symbol only chooses the symbol asked for; the answer is an input here.)
fetch_quote_unguarded(ticker, resp) ==
    IF ~resp.ok
    THEN [ticker |-> ticker, price |-> Err, prev_close |-> Err, change_pct_1d |-> Err,
          error |-> TRUE]
    ELSE LET price      == Get(resp.q, "c", NaN)
             prev_close == Get(resp.q, "pc", NaN)
             change_pct == IF Truthy(prev_close) /\ IsNum(prev_close)
                           THEN Mul(Div(Sub(price, prev_close), prev_close), N(100))
                           ELSE NaN
         IN  [ticker |-> ticker, price |-> price, prev_close |-> prev_close,
              change_pct_1d |-> change_pct, error |-> FALSE]

fetch_quote(ticker, resp) ==
    IF ~resp.ok THEN QuoteError(ticker)
    ELSE LET price      == Get(resp.q, "c", NaN)
             prev_close == Get(resp.q, "pc", NaN)
             change_pct == IF Truthy(prev_close) /\ IsNum(prev_close)
                           THEN Mul(Div(Sub(price, prev_close), prev_close), N(100))
                           ELSE NaN
         IN  IF IsErr(change_pct) THEN QuoteError(ticker)
             ELSE [ticker |-> ticker, price |-> price, prev_close |-> prev_close,
                   change_pct_1d |-> change_pct, error |-> FALSE]

AllNaN == [invested |-> NaN, current_value |-> NaN, pl_abs |-> NaN, pl_pct |-> NaN]

calc_pl_unguarded(shares, entry, price) ==
    IF ~(IsNum(shares) /\ IsNum(entry) /\ IsNum(price)) THEN AllNaN
    ELSE LET invested      == Mul(shares, entry)
             current_value == Mul(shares, price)
             pl_abs        == Sub(current_value, invested)
             pl_pct        == Mul(Div(pl_abs, invested), N(100))
         IN  [invested |-> invested, current_value |-> current_value,
              pl_abs |-> pl_abs, pl_pct |-> pl_pct]

calc_pl(shares, entry, price) ==
    IF ~(IsNum(shares) /\ IsNum(entry) /\ IsNum(price)) THEN AllNaN
    ELSE LET invested      == Mul(shares, entry)
             current_value == Mul(shares, price)
             pl_abs        == Sub(current_value, invested)
             pl_pct        == IF Truthy(invested)
                              THEN Mul(Div(pl_abs, invested), N(100))
                              ELSE NaN
         IN  [invested |-> invested, current_value |-> current_value,
              pl_abs |-> pl_abs, pl_pct |-> pl_pct]

\* an exception leaves calc_pl
PlRaised(pl) ==
    IsErr(pl.invested) \/ IsErr(pl.current_value) \/ IsErr(pl.pl_abs) \/ IsErr(pl.pl_pct)

\* sorted(tiers)
RECURSIVE Insert(_, _)
Insert(t, s) ==
    IF s = <<>> THEN <<t>>
    ELSE IF t < Head(s) THEN <<t>> \o s
    ELSE <<Head(s)>> \o Insert(t, Tail(s))

RECURSIVE Sorted(_)
Sorted(s) == IF s = <<>> THEN <<>> ELSE Insert(Head(s), Sorted(Tail(s)))

RECURSIVE TiersFrom(_, _)
TiersFrom(change_pct, s) ==
    IF s = <<>> THEN <<>>
    ELSE (IF Geq(Abs(change_pct), N(Head(s))) THEN <<Head(s)>> ELSE <<>>)
         \o TiersFrom(change_pct, Tail(s))

MIN_SURGE_TIERS == <<15, 20, 30>>

should_alert_surges_first(change_pct, tiers) ==
    IF ~IsNum(change_pct) THEN <<>>
    ELSE LET hit == TiersFrom(change_pct, Sorted(tiers))
         IN  IF hit = <<>> THEN <<>> ELSE <<hit[1]>>

should_alert_surges(change_pct, tiers) ==
    IF ~IsNum(change_pct) THEN <<>>
    ELSE TiersFrom(change_pct, Sorted(tiers))

\* "!raise" stands for an exception leaving the function
check_floor_breach_strict(invested, current_value, floor_value, floor_threshold_pct) ==
    IF IsNum(invested) /\ IsNum(current_value)
    THEN IF IsNum(floor_value) /\ Leq(current_value, floor_value)
         THEN "floor_value"
         ELSE IF IsNum(floor_threshold_pct) /\ Gt(floor_threshold_pct, N(0))
              THEN LET loss_pct == IF Truthy(invested)
                                   THEN Mul(Div(Sub(invested, current_value), invested), N(100))
                                   ELSE NaN
                   IN  IF IsErr(loss_pct) THEN "!raise"
                       ELSE IF IsNum(loss_pct) /\ Gt(loss_pct, floor_threshold_pct)
                            THEN "threshold_pct"
                            ELSE ""
              ELSE ""
    ELSE ""

check_floor_breach_pct_first(invested, current_value, floor_value, floor_threshold_pct) ==
    IF IsNum(invested) /\ IsNum(current_value)
    THEN LET loss_pct == IF Truthy(invested)
                         THEN Mul(Div(Sub(invested, current_value), invested), N(100))
                         ELSE NaN
         IN  IF IsNum(floor_threshold_pct) /\ Gt(floor_threshold_pct, N(0))
                /\ IsNum(loss_pct) /\ Geq(loss_pct, floor_threshold_pct)
             THEN "threshold_pct"
             ELSE IF IsNum(floor_value) /\ Leq(current_value, floor_value)
                  THEN "floor_value"
                  ELSE ""
    ELSE ""

check_floor_breach(invested, current_value, floor_value, floor_threshold_pct) ==
    IF IsNum(invested) /\ IsNum(current_value)
    THEN IF IsNum(floor_value) /\ Leq(current_value, floor_value)
         THEN "floor_value"
         ELSE IF IsNum(floor_threshold_pct) /\ Gt(floor_threshold_pct, N(0))
              THEN LET loss_pct == IF Truthy(invested)
                                   THEN Mul(Div(Sub(invested, current_value), invested), N(100))
                                   ELSE NaN
                   IN  IF IsErr(loss_pct) THEN "!raise"
                       ELSE IF IsNum(loss_pct) /\ Geq(loss_pct, floor_threshold_pct)
                            THEN "threshold_pct"
                            ELSE ""
              ELSE ""
    ELSE ""

(***************************************************************************)
(* Pure-function harness: one position goes through calc_pl and then       *)
(* check_floor_breach, as lines 172-174 and 191 of background_scan do.     *)
(***************************************************************************)
ShareVals == {NaN, N(0), N(10)}

EntryVals == {NaN, N(0), N(100)}

PriceVals == {NaN, N(80), N(85), N(120)}

FloorVals == {NaN, N(700), N(800), N(900)}

PctVals == {NaN, N(-5), N(0), N(15), N(20), N(25)}

\* the big-mover worker before it is started: _last_alert_time is the empty dict
\* of line 335; last_true keeps, per symbol, the clock reading at which
\* _should_alert_symbol last returned True, alerts the clock readings at which
\* an alert was sent, and call the last iteration of the loop over the symbols
\* (prev_true is last_true of its symbol before it, -1 when there is none)
BigIdle ==
    [pc |-> "off", now |-> 0, universe |-> <<>>, i |-> 0, passes |-> 0,
     last_alert_time |-> <<>>, last_true |-> <<>>, alerts |-> <<>>,
     call |-> [sym |-> "", pct |-> NaN, ret |-> FALSE, send |-> "none",
               prev_true |-> -1]]

\* the weekly worker before it is started: sent_for_week is None (line 317);
\* log keeps what the worker handed to the transport
WeeklyIdle ==
    [pc |-> "off", now |-> 0, read |-> 0, sent_for_week |-> None, ticks |-> 0,
     tick |-> "none", log |-> <<>>]

CalcIdle ==
    [stage |-> "off", shares |-> NaN, entry |-> NaN, price |-> NaN,
     floor_value |-> NaN, floor_pct |-> NaN, pl |-> AllNaN, reason |-> ""]

FmtIdle == [stage |-> "off", x |-> NaN, how |-> "none", text |-> <<>>, parsed |-> NaN]

LastIdle ==
    [ticker |-> <<>>, resp |-> [ok |-> FALSE], q |-> QuoteError(<<>>),
     pl |-> AllNaN, tiers_hit |-> <<>>, surge |-> "none", reason |-> "",
     floor |-> "none", repeat |-> FALSE, msgs |-> <<>>, raised |-> "init"]

CalcInit ==
    /\ calc \in [stage : {"in"}, shares : ShareVals, entry : EntryVals, price : PriceVals,
                 floor_value : FloorVals, floor_pct : PctVals, pl : {AllNaN},
                 reason : {""}]
    /\ scans = <<>>
    /\ last = LastIdle
    /\ alerted = {}
    /\ big = BigIdle
    /\ weekly = WeeklyIdle
    /\ fmt = FmtIdle

CalcPL ==
    /\ calc.stage = "in"
    /\ LET pl == calc_pl(calc.shares, calc.entry, calc.price)
       IN  calc' = [calc EXCEPT !.pl = pl,
                                !.stage = IF PlRaised(pl) THEN "raised" ELSE "pl"]
    /\ UNCHANGED <<scans, last, alerted, fmt, big, weekly>>

CheckFloorBreach ==
    /\ calc.stage = "pl"
    /\ LET reason == check_floor_breach(calc.pl.invested, calc.pl.current_value,
                                        calc.floor_value, calc.floor_pct)
       IN  calc' = [calc EXCEPT !.reason = reason,
                                !.stage = IF reason = "!raise" THEN "raised" ELSE "done"]
    /\ UNCHANGED <<scans, last, alerted, fmt, big, weekly>>

CalcNext == CalcPL \/ CheckFloorBreach

SpecCalc == CalcInit /\ [][CalcNext]_vars

(***************************************************************************)
(* Formatting harness: a number is formatted for display and the displayed *)
(* text is handed to safe_float.                                           *)
(***************************************************************************)
Wholes == {0, 1, 12, 999, 1000, 1234567}

FmtVals == {NaN} \cup {Q(s * (w * 8 + e), 8) : s \in {1, -1}, w \in Wholes, e \in 0..7}

FmtInit ==
    /\ fmt \in [stage : {"in"}, x : FmtVals, how : {"none"}, text : {<<>>}, parsed : {NaN}]
    /\ scans = <<>>
    /\ last = LastIdle
    /\ alerted = {}
    /\ big = BigIdle
    /\ weekly = WeeklyIdle
    /\ calc = CalcIdle

FormatMoney ==
    /\ fmt.stage = "in"
    /\ fmt' = [fmt EXCEPT !.stage = "shown", !.how = "money", !.text = format_money(fmt.x)]
    /\ UNCHANGED <<scans, last, alerted, calc, big, weekly>>

FormatPct ==
    /\ fmt.stage = "in"
    /\ fmt' = [fmt EXCEPT !.stage = "shown", !.how = "pct", !.text = format_pct(fmt.x)]
    /\ UNCHANGED <<scans, last, alerted, calc, big, weekly>>

Reparse ==
    /\ fmt.stage = "shown"
    /\ fmt' = [fmt EXCEPT !.stage = "parsed", !.parsed = safe_float(fmt.text)]
    /\ UNCHANGED <<scans, last, alerted, calc, big, weekly>>

FmtNext == FormatMoney \/ FormatPct \/ Reparse

SpecFmt == FmtInit /\ [][FmtNext]_vars

(***************************************************************************)
(* The program: the boot timer, the scan cycles and the /watch command.    *)
(*                                                                         *)
(* scans[t] is one execution context of background_scan (a Timer thread or *)
(* the Thread cmd_watch starts) with its local variables:                  *)
(*   pc      "none"    no such thread                                      *)
(*           "timer"   a threading.Timer is pending, delay seconds         *)
(*           "run"     background_scan entered, before load_watchlist      *)
(*           "rows"    in the for loop, i rows done                        *)
(*           "except"  in the except clause (line 207)                     *)
(*           "stopped" background_scan left with no Timer started          *)
(*   sent    whether this cycle has handed a message to the chat transport *)
(*   read_ok whether ws.get_all_records() answered in this cycle           *)
(*   exc     what raised the exception the cycle caught ("" if none)       *)
(* last is the latest execution of the loop body (lines 170-203), alerted  *)
(* the tickers a floor-breach alert has been delivered for so far.         *)
(***************************************************************************)
SCAN_INTERVAL_SECONDS == 900

BOOT_DELAY_SECONDS == 2

MaxWatch == 1

Threads == 1..(1 + MaxWatch)

ScanIdle ==
    [pc |-> "none", delay |-> 0, wl |-> <<>>, i |-> 0, sent |-> FALSE, read_ok |-> TRUE,
     exc |-> ""]

\* the spreadsheet contents a read may return
RowA ==
    [Ticker |-> <<"A", "A", "A">>, Shares |-> <<"1", "0">>, Entry |-> <<"1", "0", "0">>,
     FloorThresholdPct |-> <<"1", "5">>]

RowB ==
    [Ticker |-> <<" ", "b", "b", "b">>, Shares |-> <<"1", "0">>,
     Entry |-> <<"1", "0", "0", ".", "0">>, FloorValue |-> <<"9", "0", "0">>,
     FloorThresholdPct |-> <<"1", "5">>]

RowC ==
    [Ticker |-> <<"C", "C", "C">>, Shares |-> <<"0">>, Entry |-> <<"1", "0", "0">>,
     FloorValue |-> <<>>, FloorThresholdPct |-> <<"1", "5">>]

RowBlank ==
    [Ticker |-> <<" ">>, Shares |-> <<"5">>, Entry |-> <<"1">>, FloorValue |-> <<>>,
     FloorThresholdPct |-> <<>>]

Sheets == {<<RowA>>, <<RowB, RowBlank, RowC>>, <<RowBlank>>}

Reads == {[ok |-> FALSE]} \cup {[ok |-> TRUE, records |-> sh] : sh \in Sheets}

\* the answers of the quote provider
Quotes ==
    {<<>>, [c |-> N(80)], [pc |-> N(100)], [c |-> N(80), pc |-> N(0)]}
    \cup {[c |-> N(p), pc |-> N(100)] : p \in {80, 105, 117, 130}}

Responses == {[ok |-> FALSE]} \cup {[ok |-> TRUE, q |-> q] : q \in Quotes}

Init ==
    /\ scans = [t \in Threads |->
                   IF t = 1
                   THEN [ScanIdle EXCEPT !.pc = "timer", !.delay = BOOT_DELAY_SECONDS]
                   ELSE ScanIdle]
    /\ last = LastIdle
    /\ alerted = {}
    /\ big = BigIdle
    /\ weekly = WeeklyIdle
    /\ calc = CalcIdle
    /\ fmt = FmtIdle

\* threading.Timer(SCAN_INTERVAL_SECONDS, background_scan).start(); return
\* (the locals wl and row index go with the frame; sent, read_ok and exc stay as
\* the record of the cycle that ended)
Reschedule(sc) ==
    [sc EXCEPT !.pc = "timer", !.delay = SCAN_INTERVAL_SECONDS, !.wl = <<>>, !.i = 0]

\* the pending Timer of thread t fires and calls background_scan
TimerFire(t) ==
    /\ scans[t].pc = "timer"
    /\ scans' = [scans EXCEPT ![t] = [ScanIdle EXCEPT !.pc = "run"]]
    /\ UNCHANGED <<last, alerted, calc, fmt, big, weekly>>

\* /watch: reply, then start a thread running background_scan.  When reply_to
\* raises, the handler is left before the thread is started.
CmdWatch ==
    /\ \E t \in Threads : scans[t].pc = "none"
    /\ \E reply_ok \in BOOLEAN :
          LET t == CHOOSE u \in Threads :
                      scans[u].pc = "none" /\ \A v \in Threads : scans[v].pc = "none" => u <= v
          IN  scans' = IF reply_ok
                       THEN [scans EXCEPT ![t] = [ScanIdle EXCEPT !.pc = "run"]]
                       ELSE scans
    /\ UNCHANGED <<last, alerted, calc, fmt, big, weekly>>

\* lines 164-167
ScanLoad(t) ==
    /\ scans[t].pc = "run"
    /\ \E read \in Reads :
          \E r \in {load_watchlist(read)} :
              scans' = [scans EXCEPT ![t] =
                  IF r.raised
                  THEN [@ EXCEPT !.pc = "except", !.exc = "read", !.read_ok = read.ok]
                  ELSE IF r.wl = <<>>
                  THEN Reschedule([@ EXCEPT !.read_ok = read.ok])
                  ELSE [@ EXCEPT !.pc = "rows", !.wl = r.wl, !.i = 0, !.read_ok = read.ok]]
    /\ UNCHANGED <<last, alerted, calc, fmt, big, weekly>>

\* line 177: if tiers_hit
SurgeAlertDue(tiers_hit) == tiers_hit # <<>>

\* line 192: if reason (the scan consults nothing else)
FloorAlertDue_once(reason, ticker, seen) == reason # "" /\ ticker \notin seen

FloorAlertDue(reason, ticker, seen) == reason # ""

\* the loop body, lines 170-203, for one row; surge_ok and floor_ok tell whether
\* bot.send_message returns or raises
RowBody(row, resp, surge_ok, floor_ok) ==
    LET ticker    == row.Ticker
        q         == fetch_quote(ticker, resp)
        pl        == calc_pl(row.Shares, row.Entry, q.price)
        tiers_hit == should_alert_surges(q.change_pct_1d, MIN_SURGE_TIERS)
        surge     == IF ~SurgeAlertDue(tiers_hit) THEN "none"
                     ELSE IF surge_ok THEN "sent" ELSE "failed"
        reason    == check_floor_breach(pl.invested, pl.current_value,
                                        row.FloorValue, row.FloorThresholdPct)
        floor     == IF ~FloorAlertDue(reason, ticker, alerted) THEN "none"
                     ELSE IF floor_ok THEN "sent" ELSE "failed"
        surge_msg == [kind |-> "surge", ticker |-> ticker, tiers |-> tiers_hit]
        floor_msg == [kind |-> "floor", ticker |-> ticker, reason |-> reason]
        base      == [LastIdle EXCEPT !.ticker = ticker, !.resp = resp, !.raised = ""]
    IN  IF IsErr(q.price) THEN [base EXCEPT !.raised = "quote"]
        ELSE IF PlRaised(pl) THEN [base EXCEPT !.q = q, !.raised = "calc"]
        ELSE IF surge = "failed"
        THEN [base EXCEPT !.q = q, !.pl = pl, !.tiers_hit = tiers_hit, !.surge = surge,
                          !.raised = "send"]
        ELSE IF reason = "!raise"
        THEN [base EXCEPT !.q = q, !.pl = pl, !.tiers_hit = tiers_hit, !.surge = surge,
                          !.msgs = IF surge = "sent" THEN <<surge_msg>> ELSE <<>>,
                          !.raised = "floor"]
        ELSE [base EXCEPT !.q = q, !.pl = pl, !.tiers_hit = tiers_hit, !.surge = surge,
                          !.reason = reason, !.floor = floor,
                          !.repeat = (floor # "none" /\ ticker \in alerted),
                          !.msgs = (IF surge = "sent" THEN <<surge_msg>> ELSE <<>>)
                                   \o (IF floor = "sent" THEN <<floor_msg>> ELSE <<>>),
                          !.raised = IF floor = "failed" THEN "send" ELSE ""]

\* the outcomes of bot.send_message to choose from, given the loop body as it
\* runs when every send returns: a send that is not reached has no outcome
SendOutcomes(dry) ==
    {<<s, f>> \in BOOLEAN \X BOOLEAN :
        /\ (dry.surge = "none" => s)
        /\ (dry.floor = "none" \/ ~s => f)}

\* one iteration of the for loop at line 169
ScanRow(t) ==
    /\ scans[t].pc = "rows"
    /\ scans[t].i < Len(scans[t].wl)
    /\ \E resp \in Responses :
          \E dry \in {RowBody(scans[t].wl[scans[t].i + 1], resp, TRUE, TRUE)} :
          \E ok \in SendOutcomes(dry) :
          \E b \in {RowBody(scans[t].wl[scans[t].i + 1], resp, ok[1], ok[2])} :
                 /\ last' = b
                 /\ alerted' = IF b.floor = "sent" THEN alerted \cup {b.ticker} ELSE alerted
                 /\ scans' = [scans EXCEPT ![t] =
                        IF b.raised # ""
                        THEN [@ EXCEPT !.pc = "except", !.exc = b.raised,
                                       !.sent = @ \/ b.msgs # <<>>]
                        ELSE [@ EXCEPT !.i = @ + 1, !.sent = @ \/ b.msgs # <<>>]]
    /\ UNCHANGED <<calc, fmt, big, weekly>>

\* line 205, after the last row
ScanEnd(t) ==
    /\ scans[t].pc = "rows"
    /\ scans[t].i = Len(scans[t].wl)
    /\ scans' = [scans EXCEPT ![t] = Reschedule(@)]
    /\ UNCHANGED <<last, alerted, calc, fmt, big, weekly>>

\* lines 207-209: report the error, then start the next Timer; when the report
\* itself raises, the exception leaves background_scan and line 209 never runs
ScanExcept(t) ==
    /\ scans[t].pc = "except"
    /\ \E report_ok \in BOOLEAN :
          scans' = [scans EXCEPT ![t] =
                       IF report_ok
                       THEN Reschedule([@ EXCEPT !.sent = TRUE])
                       ELSE [@ EXCEPT !.pc = "stopped", !.wl = <<>>, !.i = 0]]
    /\ UNCHANGED <<last, alerted, calc, fmt, big, weekly>>

Next ==
    \/ CmdWatch
    \/ \E t \in Threads : TimerFire(t)
    \/ \E t \in Threads : ScanLoad(t)
    \/ \E t \in Threads : ScanRow(t)
    \/ \E t \in Threads : ScanEnd(t)
    \/ \E t \in Threads : ScanExcept(t)

Spec == Init /\ [][Next]_vars

\* The scan loop started at boot with no /watch command arriving.  The cycles a
\* /watch starts run the same code on their own locals.
ScanNext ==
    \/ \E t \in Threads : TimerFire(t)
    \/ \E t \in Threads : ScanLoad(t)
    \/ \E t \in Threads : ScanRow(t)
    \/ \E t \in Threads : ScanEnd(t)
    \/ \E t \in Threads : ScanExcept(t)

SpecScan == Init /\ [][ScanNext]_vars

(***************************************************************************)
(* The big-mover worker (lines 334-374).  The clock is time.time(), seconds *)
(* since the epoch: it is read once per call of _should_alert_symbol, moves *)
(* while the worker sleeps, and can be set back by the system.              *)
(***************************************************************************)
BIG_GAINER_CHECK_SECONDS == 300

BIG_GAINER_THRESHOLD == 3

BIG_ALERT_COOLDOWN_MIN == 90

\* a reading of time.time() when the worker thread starts
BootTime == 1700000000

MaxPasses == 4

\* what the clock gains between two passes: the sleep of line 374 alone, the
\* sleep with the process suspended for a while, or the sleep with the system
\* clock set back meanwhile
ClockSteps ==
    {BIG_GAINER_CHECK_SECONDS, BIG_ALERT_COOLDOWN_MIN * 60 - BIG_GAINER_CHECK_SECONDS - 1,
     BIG_ALERT_COOLDOWN_MIN * 60 - BIG_GAINER_CHECK_SECONDS, -600}

\* dict[key] = value
Put(dict, key, value) ==
    [k \in DOMAIN dict \cup {key} |-> IF k = key THEN value ELSE dict[k]]

should_alert_symbol_seconds(symbol, now, lat) ==
    LET last_t == Get(lat, symbol, 0)
    IN  IF now - last_t >= BIG_ALERT_COOLDOWN_MIN
        THEN [ret |-> TRUE, lat |-> Put(lat, symbol, now)]
        ELSE [ret |-> FALSE, lat |-> lat]

\* _should_alert_symbol, with the clock reading and the dict _last_alert_time
\* passed in and the dict handed back
should_alert_symbol(symbol, now, lat) ==
    LET last_t == Get(lat, symbol, 0)
    IN  IF now - last_t >= BIG_ALERT_COOLDOWN_MIN * 60
        THEN [ret |-> TRUE, lat |-> Put(lat, symbol, now)]
        ELSE [ret |-> FALSE, lat |-> lat]

\* the lists get_universe() returns, a symbol listed twice among them (the
\* slice to UNIVERSE_SCAN_LIMIT keeps lists this short whole)
Universes == {<<"AAPL", "MSFT">>, <<"AAPL", "AAPL">>}

\* the answers of finnhub_client.quote to the worker
BigQuotes ==
    {<<>>, [c |-> N(103), pc |-> N(0)]}
    \cup {[c |-> N(p), pc |-> N(100)] : p \in {102, 103}}

BigResponses == {[ok |-> FALSE]} \cup {[ok |-> TRUE, q |-> q] : q \in BigQuotes}

\* None where the worker expects a number
NoValue == [k |-> "none", n |-> 0, d |-> 1]

\* "not v" for what q.get returns: None and zero
Falsy(v) == v.k = "none" \/ ~Truthy(v)

\* lines 352-367 for one symbol: the quote, the move against the previous
\* close, the cooldown test and the send; send_ok is whether bot.send_message
\* returns when it is reached
BigBody(sym, resp, send_ok, now, lat) ==
    LET skip == [pct |-> NaN, ret |-> FALSE, lat |-> lat, send |-> "none"]
    IN  IF ~resp.ok THEN skip
        ELSE LET c  == Get(resp.q, "c", NoValue)
                 pc == Get(resp.q, "pc", NoValue)
             IN  IF Falsy(c) \/ Falsy(pc) THEN skip
                 ELSE LET pct == Mul(Div(Sub(c, pc), pc), N(100))
                      IN  IF ~Geq(pct, N(BIG_GAINER_THRESHOLD))
                          THEN [skip EXCEPT !.pct = pct]
                          ELSE LET r == should_alert_symbol(sym, now, lat)
                               IN  [pct |-> pct, ret |-> r.ret, lat |-> r.lat,
                                    send |-> IF ~r.ret THEN "none"
                                             ELSE IF send_ok THEN "sent" ELSE "failed"]

BigInit ==
    /\ big = [BigIdle EXCEPT !.pc = "top", !.now = BootTime]
    /\ scans = <<>>
    /\ last = LastIdle
    /\ alerted = {}
    /\ calc = CalcIdle
    /\ fmt = FmtIdle
    /\ weekly = WeeklyIdle

\* line 349: a pass begins with the universe of the moment
BigPass ==
    /\ big.pc = "top"
    /\ big.passes < MaxPasses
    /\ \E u \in Universes :
          big' = [big EXCEPT !.pc = "scan", !.universe = u, !.i = 0, !.passes = @ + 1]
    /\ UNCHANGED <<scans, last, alerted, calc, fmt, weekly>>

\* one iteration of the for loop at line 350; whatever is raised in it is
\* swallowed at line 367
BigSymbol ==
    /\ big.pc = "scan"
    /\ big.i < Len(big.universe)
    /\ \E resp \in BigResponses, send_ok \in BOOLEAN :
          \E b \in {BigBody(big.universe[big.i + 1], resp, send_ok, big.now,
                            big.last_alert_time)} :
             LET sym == big.universe[big.i + 1]
             IN  big' = [big EXCEPT
                    !.i = @ + 1,
                    !.last_alert_time = b.lat,
                    !.last_true = IF b.ret THEN Put(@, sym, big.now) ELSE @,
                    !.alerts = IF b.send = "sent"
                               THEN Put(@, sym, Append(Get(@, sym, <<>>), big.now))
                               ELSE @,
                    !.call = [sym |-> sym, pct |-> b.pct, ret |-> b.ret,
                              send |-> b.send,
                              prev_true |-> Get(big.last_true, sym, -1)]]
    /\ UNCHANGED <<scans, last, alerted, calc, fmt, weekly>>

\* line 374, after the last symbol of the pass
BigSleep ==
    /\ big.pc = "scan"
    /\ big.i = Len(big.universe)
    /\ \E d \in ClockSteps :
          /\ big.now + d >= BootTime
          /\ big' = [big EXCEPT !.pc = "top", !.now = @ + d, !.universe = <<>>, !.i = 0]
    /\ UNCHANGED <<scans, last, alerted, calc, fmt, weekly>>

BigNext == BigPass \/ BigSymbol \/ BigSleep

SpecBig == BigInit /\ [][BigNext]_vars

(***************************************************************************)
(* The weekly screen worker (lines 315-332).  The clock is Europe/London    *)
(* local time in minutes since Monday 2027-12-27 00:00, the first day of    *)
(* ISO week 52 of 2027; no daylight-saving change falls in the weeks        *)
(* modelled, so local time runs evenly.                                     *)
(***************************************************************************)
BEST_RUN_DAY == 0

BEST_RUN_HOUR == 9

MinutesPerDay == 1440

MinutesPerWeek == 10080

EpochIsoYear == 2027

EpochIsoWeek == 52

\* 2027 and 2028 have 52 ISO weeks each
IsoWeeksInYear == 52

MaxTicks == 5

\* now.weekday(): Monday is 0
weekday(m) == (m \div MinutesPerDay) % 7

\* now.hour
hour(m) == (m % MinutesPerDay) \div 60

\* now.isocalendar()
isocalendar(m) ==
    LET k == (EpochIsoWeek - 1) + (m \div MinutesPerWeek)
    IN  [year |-> EpochIsoYear + (k \div IsoWeeksInYear), week |-> (k % IsoWeeksInYear) + 1]

\* f"{now.isocalendar().year}-W{now.isocalendar().week}"
week_tag(m) ==
    NatText(isocalendar(m).year) \o <<"-", "W">> \o NatText(isocalendar(m).week)

weekly_due_any_hour(m, sent_for_week) ==
    weekday(m) = BEST_RUN_DAY /\ sent_for_week # week_tag(m)

\* the condition of line 323
weekly_due(m, sent_for_week) ==
    weekday(m) = BEST_RUN_DAY /\ hour(m) = BEST_RUN_HOUR /\ sent_for_week # week_tag(m)

\* the local time when the worker thread starts: Monday 08:59 and Monday 09:59
\* of the first week
WeeklyBoots == {539, 599}

\* what the clock gains over time.sleep(60): a minute, or more when the process
\* is suspended meanwhile (up to Monday 09:59 from 09:00, a day, a week less an
\* hour)
SleepMinutes == {1, 59, MinutesPerDay, MinutesPerWeek - 60}

\* the minute boundaries compute_best_trades_dual crosses while it runs: one
\* request per symbol of the universe and a sleep of 1.2 s after every 50
ComputeMinutes == {0, 1}

WeeklyInit ==
    /\ weekly \in {[WeeklyIdle EXCEPT !.pc = "check", !.now = b] : b \in WeeklyBoots}
    /\ scans = <<>>
    /\ last = LastIdle
    /\ alerted = {}
    /\ calc = CalcIdle
    /\ fmt = FmtIdle
    /\ big = BigIdle

\* lines 321-323: read the clock and decide
WeeklyCheck ==
    /\ weekly.pc = "check"
    /\ weekly.ticks < MaxTicks
    /\ weekly' = [weekly EXCEPT
          !.read = weekly.now,
          !.ticks = @ + 1,
          !.tick = "none",
          !.pc = IF weekly_due(weekly.now, weekly.sent_for_week) THEN "screen" ELSE "sleep"]
    /\ UNCHANGED <<scans, last, alerted, calc, fmt, big>>

\* lines 324-326: compute the screen, send it, mark the week; compute or send
\* may raise, and then line 326 is not reached
WeeklyScreen ==
    /\ weekly.pc = "screen"
    /\ \E d \in ComputeMinutes, outcome \in {"sent", "compute_failed", "send_failed"} :
          weekly' = [weekly EXCEPT
             !.now = @ + d,
             !.tick = outcome,
             !.pc = IF outcome = "sent" THEN "sleep" ELSE "except",
             !.sent_for_week = IF outcome = "sent" THEN week_tag(weekly.read) ELSE @,
             !.log = IF outcome = "sent"
                     THEN Append(@, [kind |-> "weekly", at |-> weekly.now + d,
                                     read |-> weekly.read])
                     ELSE @]
    /\ UNCHANGED <<scans, last, alerted, calc, fmt, big>>

\* lines 327-331: report the error; a failing report is swallowed
WeeklyExcept ==
    /\ weekly.pc = "except"
    /\ \E report_ok \in BOOLEAN :
          weekly' = [weekly EXCEPT
             !.pc = "sleep",
             !.log = IF report_ok
                     THEN Append(@, [kind |-> "error", at |-> weekly.now,
                                     read |-> weekly.read])
                     ELSE @]
    /\ UNCHANGED <<scans, last, alerted, calc, fmt, big>>

\* line 332
WeeklySleep ==
    /\ weekly.pc = "sleep"
    /\ \E d \in SleepMinutes :
          weekly' = [weekly EXCEPT !.pc = "check", !.now = @ + d]
    /\ UNCHANGED <<scans, last, alerted, calc, fmt, big>>

WeeklyNext == WeeklyCheck \/ WeeklyScreen \/ WeeklyExcept \/ WeeklySleep

SpecWeekly == WeeklyInit /\ [][WeeklyNext]_vars

(***************************************************************************)
(* Properties.                                                             *)
(***************************************************************************)
Live == {"timer", "run", "rows", "except"}

\* C1: every execution of background_scan ends with the next cycle scheduled
\* after SCAN_INTERVAL_SECONDS, whatever happened in it: no execution is ever
\* left with no Timer started, also when the chat transport fails while an alert
\* or the error report is sent.
C1_EveryCycleReschedules ==
    \A t \in Threads :
        /\ scans[t].pc # "stopped"
        /\ scans[t].pc = "timer" =>
              scans[t].delay \in {BOOT_DELAY_SECONDS, SCAN_INTERVAL_SECONDS}

\* C2: at most one scan cycle is running or pending on a timer, whatever /watch
\* commands have arrived.
C2_SingleScanLoop ==
    Cardinality({t \in Threads : scans[t].pc \in Live}) <= 1

NoPrice(resp) == ~resp.ok \/ "c" \notin DOMAIN resp.q

NoPrevClose(resp) == resp.ok /\ "pc" \notin DOMAIN resp.q

\* C3 as stated: a quote failure for a position (the call raises, or the answer
\* lacks the current price or the previous close) makes its price and P/L
\* not-a-number and does not abort the batch.
C3_QuoteFailureUndefinesPriceAndPL ==
    (last.raised # "init" /\ (NoPrice(last.resp) \/ NoPrevClose(last.resp))) =>
        /\ last.raised \in {"", "send"}
        /\ ~IsNum(last.q.price)
        /\ last.pl = AllNaN

\* C3 amended: a raising quote call or an answer without the current price makes
\* price, one-day change and P/L of that position not-a-number and sends nothing;
\* an answer with the current price but no previous close makes only the one-day
\* change not-a-number and keeps the price.  No quote outcome aborts the batch:
\* the loop body is left early only by a failing send_message, so the for loop
\* goes on to the next position.
C3_QuoteFailureStaysLocal ==
    /\ last.raised \in {"init", "", "send"}
    /\ \A t \in Threads : scans[t].exc \in {"", "send"}
    /\ last.raised # "init" =>
          /\ NoPrice(last.resp) =>
                /\ ~IsNum(last.q.price) /\ ~IsNum(last.q.change_pct_1d)
                /\ last.pl = AllNaN
                /\ last.raised = "" /\ last.msgs = <<>>
          /\ (NoPrevClose(last.resp) /\ ~NoPrice(last.resp)) =>
                /\ last.q.price = last.resp.q["c"]
                /\ ~IsNum(last.q.prev_close) /\ ~IsNum(last.q.change_pct_1d)

\* a cycle over a two-row watchlist has evaluated both rows, the second one with
\* the quote call raising
C3_Witness ==
    \E t \in Threads :
        /\ scans[t].pc = "rows" /\ Len(scans[t].wl) = 2 /\ scans[t].i = 2
        /\ last.ticker = scans[t].wl[2].Ticker
        /\ ~last.resp.ok /\ last.pl = AllNaN

Literal(c) == [invested |-> Mul(c.shares, c.entry), current_value |-> Mul(c.shares, c.price)]

LossPct(invested, current_value) ==
    Mul(Div(Sub(invested, current_value), invested), N(100))

\* C4 as stated: a configured floor value with current value shares x price at or
\* below it gives reason "floor_value", whatever the threshold percentage is.
C4_FloorValueWheneverBelow ==
    (calc.stage = "done" /\ IsNum(calc.floor_value)
        /\ Leq(Literal(calc).current_value, calc.floor_value)) =>
        calc.reason = "floor_value"

\* C4 amended: the same for every position whose shares, entry and price are all
\* numbers; when one of the three is not-a-number no breach is reported.
C4_FloorValueWhenDefined ==
    calc.stage = "done" =>
        IF IsNum(calc.shares) /\ IsNum(calc.entry) /\ IsNum(calc.price)
        THEN (IsNum(calc.floor_value)
                 /\ Leq(Literal(calc).current_value, calc.floor_value)) =>
                 calc.reason = "floor_value"
        ELSE calc.reason = ""

\* floor value and percentage threshold are both breached and the floor value wins
C4_Witness ==
    /\ calc.stage = "done" /\ calc.reason = "floor_value"
    /\ Gt(calc.floor_pct, N(0))
    /\ Truthy(calc.pl.invested)
    /\ Geq(LossPct(calc.pl.invested, calc.pl.current_value), calc.floor_pct)

ThresholdRule(c) ==
    LET inv == Literal(c).invested
        cur == Literal(c).current_value
    IN  /\ ~(IsNum(c.floor_value) /\ Leq(cur, c.floor_value))
        /\ IsNum(c.floor_pct) /\ Gt(c.floor_pct, N(0))
        /\ IsNum(inv) /\ inv # N(0)
        /\ Geq(LossPct(inv, cur), c.floor_pct)

\* C5: reason "threshold_pct" is reported exactly when the floor-value rule does
\* not apply, the threshold is a number > 0, invested is a number other than 0
\* and (invested - current value) / invested x 100 >= threshold; every other
\* case without a floor-value breach reports no breach.
C5_ThresholdPctExactly ==
    calc.stage = "done" =>
        /\ calc.reason = "threshold_pct" <=> ThresholdRule(calc)
        /\ calc.reason \in {"", "floor_value", "threshold_pct"}

\* the example of the specification: 10 shares entered at 100, threshold 15,
\* price 80
C5_Witness ==
    /\ calc.stage = "done" /\ calc.reason = "threshold_pct"
    /\ calc.shares = N(10) /\ calc.entry = N(100) /\ calc.price = N(80)
    /\ calc.floor_pct = N(15) /\ ~IsNum(calc.floor_value)

Range(s) == {s[i] : i \in 1..Len(s)}

Count(s, v) == Cardinality({i \in 1..Len(s) : s[i] = v})

TierLists == {MIN_SURGE_TIERS, <<30, 15, 20>>, <<20, 5, 20>>, <<-10, 40>>, <<>>}

ExactlyTheTiers(hit, change_pct, tiers) ==
    /\ \A i \in 1..Len(hit) : \A j \in i..Len(hit) : hit[i] <= hit[j]
    /\ \A v \in Range(tiers) \cup Range(hit) :
          Count(hit, v) = IF Geq(Abs(change_pct), N(v)) THEN Count(tiers, v) ELSE 0

\* C6: should_alert_surges returns exactly the tiers of the list that are <= the
\* absolute one-day change, ascending (none when the change is not-a-number), for
\* every tier list; the scan hands a surge alert to the transport if and only if
\* that list is non-empty, and the alert lists all the tiers hit.
C6_SurgeTiers ==
    last.raised \in {"", "send"} =>
        /\ \A tiers \in TierLists :
              ExactlyTheTiers(should_alert_surges(last.q.change_pct_1d, tiers),
                              last.q.change_pct_1d, tiers)
        /\ ExactlyTheTiers(last.tiers_hit, last.q.change_pct_1d, MIN_SURGE_TIERS)
        /\ last.surge # "none" <=> last.tiers_hit # <<>>
        /\ last.surge = "sent" =>
              last.msgs[1] = [kind |-> "surge", ticker |-> last.ticker,
                              tiers |-> last.tiers_hit]
        /\ last.surge # "sent" => \A i \in 1..Len(last.msgs) : last.msgs[i].kind # "surge"

\* a surge alert listing two of the three tiers has been sent
C6_Witness ==
    /\ last.surge = "sent" /\ last.tiers_hit = <<15, 20>>
    /\ last.msgs[1].tiers = <<15, 20>>

\* C7: calc_pl raises nothing; with invested zero or undefined (shares, entry or
\* price not-a-number) percent P/L is not-a-number; otherwise invested is
\* shares x entry, current value shares x price, absolute P/L their difference
\* and percent P/L absolute P/L / invested x 100.
C7_CalcPl ==
    calc.stage # "in" =>
        /\ calc.stage # "raised"
        /\ ~PlRaised(calc.pl)
        /\ IF ~(IsNum(calc.shares) /\ IsNum(calc.entry) /\ IsNum(calc.price))
              \/ Literal(calc).invested = N(0)
           THEN calc.pl.pl_pct = NaN
           ELSE LET inv == Literal(calc).invested
                    cur == Literal(calc).current_value
                IN  /\ calc.pl.invested = inv
                    /\ calc.pl.current_value = cur
                    /\ calc.pl.pl_abs = Sub(cur, inv)
                    /\ calc.pl.pl_pct = Mul(Div(Sub(cur, inv), inv), N(100))

\* calc_pl has returned for a position with numbers everywhere and invested zero
C7_Witness ==
    /\ calc.stage = "pl"
    /\ IsNum(calc.shares) /\ IsNum(calc.entry) /\ IsNum(calc.price)
    /\ calc.pl.invested = N(0) /\ calc.pl.pl_pct = NaN

\* C8: a cycle whose spreadsheet read failed has sent nothing, caught nothing and
\* has its next cycle scheduled after SCAN_INTERVAL_SECONDS.
C8_ReadFailureFailsSoft ==
    \A t \in Threads :
        ~scans[t].read_ok =>
            /\ scans[t].pc = "timer" /\ scans[t].delay = SCAN_INTERVAL_SECONDS
            /\ ~scans[t].sent /\ scans[t].exc = ""

C8_Witness ==
    \E t \in Threads : ~scans[t].read_ok /\ scans[t].pc = "timer"

\* C9: whenever the loop body finds a floor breach for a position it hands one
\* floor-breach alert to the transport, also for a ticker that was alerted before.
C9_FloorAlertEveryCycle ==
    last.reason \in {"floor_value", "threshold_pct"} =>
        /\ last.floor \in {"sent", "failed"}
        /\ last.floor = "sent" =>
              Cardinality({i \in 1..Len(last.msgs) :
                              last.msgs[i] = [kind |-> "floor", ticker |-> last.ticker,
                                              reason |-> last.reason]}) = 1

\* a floor-breach alert is sent for a ticker an earlier cycle already alerted
C9_Witness ==
    last.floor = "sent" /\ last.repeat /\ last.ticker \in alerted

Round2(x) == Q((IF x.n < 0 THEN -1 ELSE 1) * Hundredths(x), 100)

\* C10 as stated: format_money and format_pct followed by safe_float give back
\* the value rounded to 2 decimal places.
C10_RoundTripBoth ==
    (fmt.stage = "parsed" /\ IsNum(fmt.x)) => fmt.parsed = Round2(fmt.x)

\* C10 amended: format_money followed by safe_float gives back the value rounded
\* to 2 decimal places; the text of format_pct ends in "%", which safe_float does
\* not parse: it gives not-a-number.
C10_RoundTripMoney ==
    (fmt.stage = "parsed" /\ IsNum(fmt.x)) =>
        /\ fmt.how = "money" => fmt.parsed = Round2(fmt.x)
        /\ fmt.how = "pct" => fmt.parsed = NaN

\* a negative amount shown with thousands separators and rounded is read back
C10_Witness ==
    /\ fmt.stage = "parsed" /\ fmt.how = "money"
    /\ fmt.x = Q(-9876543, 8)
    /\ fmt.text = <<"-", "1", ",", "2", "3", "4", ",", "5", "6", "7", ".", "8", "8">>
    /\ fmt.parsed = Q(-123456788, 100)

Cooldown == BIG_ALERT_COOLDOWN_MIN * 60

\* C11: for every symbol any two Big Mover alerts sent are at least
\* BIG_ALERT_COOLDOWN_MIN minutes apart on the clock the worker reads;
\* _should_alert_symbol returns True only when at least the cooldown has passed
\* since it last returned True for the symbol, and whenever it returns True the
\* clock reading is recorded for the symbol, also when the send that follows
\* fails; an alert is sent only after it returned True.
C11_BigMoverCooldown ==
    /\ \A s \in DOMAIN big.alerts :
          \A i, j \in 1..Len(big.alerts[s]) :
             i < j => big.alerts[s][j] - big.alerts[s][i] >= Cooldown
    /\ big.last_alert_time = big.last_true
    /\ (big.pc = "scan" /\ big.i > 0) =>
          /\ big.call.ret =>
                /\ big.call.prev_true # -1 => big.now - big.call.prev_true >= Cooldown
                /\ big.call.send \in {"sent", "failed"}
                /\ big.call.sym \in DOMAIN big.last_alert_time
                /\ big.last_alert_time[big.call.sym] = big.now
          /\ ~big.call.ret => big.call.send = "none"

\* one symbol has been alerted twice, the second time when exactly the cooldown
\* had passed, and in the same pass the send for the other symbol has failed
\* after _should_alert_symbol returned True for it
C11_Witness ==
    /\ big.pc = "scan" /\ big.i = 2
    /\ big.alerts = [s \in {"AAPL"} |-> <<BootTime, BootTime + Cooldown>>]
    /\ big.call = [sym |-> "MSFT", pct |-> N(3), ret |-> TRUE, send |-> "failed",
                   prev_true |-> -1]
    /\ big.last_alert_time["MSFT"] = big.now

WeeklySent == {i \in 1..Len(weekly.log) : weekly.log[i].kind = "weekly"}

MondayNine(m) == weekday(m) = BEST_RUN_DAY /\ hour(m) = BEST_RUN_HOUR

\* at most one weekly message per week tag, and sent_for_week is the tag of the
\* last one sent (None before the first)
OnePerWeek ==
    /\ \A i, j \in WeeklySent :
          i < j => week_tag(weekly.log[i].read) # week_tag(weekly.log[j].read)
    /\ IF WeeklySent = {} THEN weekly.sent_for_week = None
       ELSE weekly.sent_for_week =
               week_tag(weekly.log[CHOOSE i \in WeeklySent :
                                      \A j \in WeeklySent : j <= i].read)

\* a tick whose compute or send failed leaves the week unmarked and has sent no
\* weekly message, so the next tick that reads Monday hour 9 tries again
FailureRetried ==
    weekly.tick \in {"compute_failed", "send_failed"} =>
        /\ weekly.sent_for_week # week_tag(weekly.read)
        /\ \A i \in WeeklySent : weekly.log[i].read # weekly.read
        /\ weekly.pc = "check" =>
              (weekly_due(weekly.now, weekly.sent_for_week) <=> MondayNine(weekly.now))

====
